---- MODULE Spec2Model ----
(***************************************************************************)
(* Model of wlnr/relayinterface/client_rpc.go: the RPC client of the       *)
(* widelands metaserver towards the relay server.                          *)
(*                                                                         *)
(* One ClientRPC is built by NewClientRPC.  The outbound side (connect,    *)
(* CreateGame, RemoveGame) keeps a handle client.relay to a connection of  *)
(* the relay; the inbound side is a listener with an accept loop.  The     *)
(* application may run several CreateGame/RemoveGame invocations at the    *)
(* same time: the code takes no lock, so their steps interleave.           *)
(***************************************************************************)
EXTENDS Naturals, Sequences, FiniteSets

\* ------------------------------------------------------------------ bounds
\* Number of connections the relay accepts over the whole run (dials that can
\* succeed); handle h is the h-th connection opened.
MaxHandles == 3
\* Number of inbound connections the relay opens to the listener while the
\* outbound side is exercised (Spec) / while the inbound side is (SpecIn).
MaxInbound == 1
MaxSessions == 2
\* Number of times the application calls NewClientRPC in one process.
MaxClients == 2
\* The application goroutines that call CreateGame / RemoveGame.
Callers == {"c1", "c2"}
\* Game names and host passwords the application passes.
Names == {"room1"}
Passwords == {"pw"}
\* The status snapshots the callback consumer can produce.
StatusValues == {"s0", "s1"}
\* The caller that runs while the inbound side is exercised.
InCallers == {"c1"}

\* ------------------------------------------------------- program constants
\* for i := 0; i < 2; i++
MaxAttempts == 2

Handles == 1..MaxHandles
\* client.relay before the first successful connect (a nil *rpc.Client)
NoHandle == 0

VARIABLES
    ctor,      \* position / result of NewClientRPC: "start", "listen", "ready", "nil"
    relay,     \* client.relay: the handle outbound calls are issued on
    conn,      \* per connection of the relay: "unused", "open", "shutdown"
    listener,  \* client.listener: "nil", "open", "closed"
    registered,\* rpc.Register(clientMethods) was called
    loop,      \* the accept goroutine: "off", "accept", "serve", "err"
    inbound,   \* number of inbound connections handed to jsonrpc.ServeConn
    inv,       \* per caller: the running CreateGame / RemoveGame invocation
    cur,       \* the client NewClientRPC is building or has built (1, 2, ...)
    service,   \* the client whose ClientRPCMethods the process-wide RPC
               \* server (rpc.DefaultServer) dispatches to; 0: none
    sess,      \* per inbound connection: its jsonrpc.ServeConn goroutine
    status,    \* what the callback consumer's Status() produces right now
    srvlog     \* log lines written by NewClientRPC and the accept goroutine

\* The inbound side and the process-wide state.
inVars == <<cur, service, sess, status, srvlog>>

vars == <<ctor, relay, conn, listener, registered, loop, inbound, inv,
          cur, service, sess, status, srvlog>>

\* ----------------------------------------------------------------- helpers
Last(s) == s[Len(s)]

\* The connections dialled so far; the next dial opens connection Fresh.
Dialled == {h \in Handles : conn[h] # "unused"}
Fresh == Cardinality(Dialled) + 1

\* One entry of an invocation's history: a call attempt ("call"), its return
\* ("ret", out = "nil" | "shutdown" | "other", b = the reply in the response)
\* or a call of connect ("connect", out = "ok" | "fail", h = handle installed).
Event(k, h, out, b) == [k |-> k, h |-> h, out |-> out, b |-> b]

\* An invocation that has not started.
IdleInv ==
    [pc |-> "idle", m |-> "", data |-> [Name |-> "", Password |-> ""],
     i |-> 0, success |-> FALSE, h |-> NoHandle, result |-> FALSE,
     hist |-> <<>>, log |-> <<>>]

\* success := false; data := GameData{...}; i := 0
NewInv(m, data) ==
    [IdleInv EXCEPT !.pc = "call", !.m = m, !.data = data]

\* GameData built by CreateGame: both fields set.
CreateGameData(name, hostPassword) == [Name |-> name, Password |-> hostPassword]
\* GameData built by RemoveGame: empty password.
RemoveGameData(name) == [Name |-> name, Password |-> ""]

\* The handle a call attempt is issued on: client.relay, read at the call.
HandleForCallCached(r, v) ==
    IF \E j \in 1..Len(v.hist) : v.hist[j].k = "call"
    THEN v.hist[1].h ELSE r
HandleForCall(r, v) == r

\* err == nil: the reply was decoded into success; break; return success.
AfterCallOkAlwaysTrue(v, reply) ==
    [v EXCEPT !.success = TRUE, !.pc = "done", !.result = TRUE]
AfterCallOk(v, reply) ==
    [v EXCEPT !.success = reply, !.pc = "done", !.result = reply]

\* err is neither nil nor rpc.ErrShutdown: log, return false.
AfterOtherErrorReconnects(v) ==
    [v EXCEPT !.pc = "reconnect"]
AfterOtherError(v) ==
    [v EXCEPT !.pc = "done", !.result = FALSE,
              !.log = Append(@, "rpc_error")]

\* err == rpc.ErrShutdown and connect() returned false: log, return false.
AfterReconnectFailContinues(v) ==
    [v EXCEPT !.i = @ + 1,
              !.pc = IF v.i + 1 < MaxAttempts THEN "call" ELSE "done",
              !.result = v.success,
              !.log = @ \o <<"unable_to_connect">>]
AfterReconnectFail(v) ==
    [v EXCEPT !.pc = "done", !.result = FALSE,
              !.log = @ \o <<"unable_to_connect", "lost_unable_to_reconnect">>]

\* err == rpc.ErrShutdown and connect() returned true: log, i++, and either
\* the next iteration or, with the loop exhausted, return success.
AfterReconnectOkUnbounded(v) ==
    [v EXCEPT !.i = @ + 1, !.pc = "call",
              !.log = @ \o <<"connected", "lost_but_reconnected">>]
AfterReconnectOk(v) ==
    [v EXCEPT !.i = @ + 1,
              !.pc = IF v.i + 1 < MaxAttempts THEN "call" ELSE "done",
              !.result = v.success,
              !.log = @ \o <<"connected", "lost_but_reconnected">>]

\* connect(): what client.relay holds after a dial that failed.
RelayAfterFailedDialCleared(r) == NoHandle
RelayAfterFailedDial(r) == r

\* NewClientRPC: where construction goes after the initial connect().
CtorAfterConnectIgnoresFailure(ok) == "listen"
CtorAfterConnect(ok) == IF ok THEN "listen" ELSE "nil"

\* The clients of one process, in the order of their construction; client k
\* was given callback consumer k.
Clients == 1..MaxClients
NoClient == 0
Sessions == 1..MaxSessions

\* An RPC request of the relay that is not there / a response not yet made.
NoReq == [m |-> "", data |-> [Name |-> "", Password |-> ""], lst |-> ""]
NoResp == "none"
\* response *bool of GameConnected / GameClosed: never written by the method.
Unset == "unset"

\* An inbound connection that was not accepted yet.
NoSession ==
    [pc |-> "none", via |-> NoClient, req |-> NoReq, cbs |-> <<>>, resp |-> NoResp]
\* go jsonrpc.ServeConn(conn): the connection accepted through client k's
\* listener is served, waiting for a request.
NewSession(k) == [NoSession EXCEPT !.pc = "idle", !.via = k]

\* One invocation of a method of a callback consumer.
Callback(to, cb, arg) == [to |-> to, cb |-> cb, arg |-> arg]

\* rpc.Register(clientMethods) on the process-wide server: the first
\* registration of the type ClientRPCMethods stays; a later one returns an
\* error (service already defined), which NewClientRPC does not look at.
RegisterService(srv, k) == IF srv = NoClient THEN k ELSE srv

\* in.Name: what GameConnected / GameClosed pass to the callback.
NameArgPassword(data) == data.Password
NameArg(data) == data.Name

\* *response = *client.client.callback.Status(): the value just produced.
StatusResponseUnset(v) == Unset
StatusResponse(v) == v

\* -------------------------------------------------------------------- Init
Init ==
    /\ ctor = "start"
    /\ relay = NoHandle
    /\ conn = [h \in Handles |-> "unused"]
    /\ listener = "nil"
    /\ registered = FALSE
    /\ loop = "off"
    /\ inbound = 0
    /\ inv = [p \in Callers |-> IdleInv]
    /\ cur = 1
    /\ service = NoClient
    /\ sess = [c \in Sessions |-> NoSession]
    /\ status = "s0"
    /\ srvlog = {}

\* ------------------------------------------------------------ construction
\* NewClientRPC, first step: client.connect() succeeds.
NewClientRPC_ConnectOk ==
    /\ ctor = "start"
    /\ Fresh <= MaxHandles
    /\ conn' = [conn EXCEPT ![Fresh] = "open"]
    /\ relay' = Fresh
    /\ ctor' = CtorAfterConnect(TRUE)
    /\ srvlog' = srvlog \cup {"connected"}
    /\ UNCHANGED <<listener, registered, loop, inbound, inv>>
    /\ UNCHANGED <<cur, service, sess, status>>

\* NewClientRPC, first step: client.connect() fails; return nil.
NewClientRPC_ConnectFail ==
    /\ ctor = "start"
    /\ relay' = RelayAfterFailedDial(relay)
    /\ ctor' = CtorAfterConnect(FALSE)
    /\ srvlog' = srvlog \cup {"unable_to_connect"}
    /\ UNCHANGED <<conn, listener, registered, loop, inbound, inv>>
    /\ UNCHANGED <<cur, service, sess, status>>

\* NewClientRPC, second step: net.Listen succeeds; the listener is stored,
\* the methods are registered, the accept goroutine starts, client returned.
NewClientRPC_ListenOk ==
    /\ ctor = "listen"
    /\ listener' = "open"
    /\ registered' = TRUE
    /\ loop' = "accept"
    /\ ctor' = "ready"
    /\ service' = RegisterService(service, cur)
    /\ UNCHANGED <<relay, conn, inbound, inv>>
    /\ UNCHANGED <<cur, sess, status, srvlog>>

\* NewClientRPC, second step: net.Listen fails; log, return nil.
NewClientRPC_ListenFail ==
    /\ ctor = "listen"
    /\ ctor' = "nil"
    /\ srvlog' = srvlog \cup {"listen_error"}
    /\ UNCHANGED <<relay, conn, listener, registered, loop, inbound, inv>>
    /\ UNCHANGED <<cur, service, sess, status>>

\* ------------------------------------------------------------- accept loop
\* rpcLn.Accept() returns a connection (the listener is open and the relay
\* dials in); the relay dials in at most n times.
AcceptConnAnyListener(n) ==
    /\ loop = "accept"
    /\ listener # "nil"
    /\ inbound < n
    /\ loop' = "serve"
    /\ UNCHANGED <<ctor, relay, conn, listener, registered, inbound, inv>>
    /\ UNCHANGED inVars
AcceptConnUpTo(n) ==
    /\ loop = "accept"
    /\ listener = "open"
    /\ inbound < n
    /\ loop' = "serve"
    /\ UNCHANGED <<ctor, relay, conn, listener, registered, inbound, inv>>
    /\ UNCHANGED inVars
AcceptConn == AcceptConnUpTo(MaxInbound)
AcceptConnIn == AcceptConnUpTo(MaxSessions)

\* rpcLn.Accept() returns an error: always on a closed listener, possibly
\* (a transient error) on an open one.
AcceptErr ==
    /\ loop = "accept"
    /\ loop' = "err"
    /\ UNCHANGED <<ctor, relay, conn, listener, registered, inbound, inv>>
    /\ UNCHANGED inVars

\* if err != nil { continue }
AcceptContinue ==
    /\ loop = "err"
    /\ loop' = "accept"
    /\ UNCHANGED <<ctor, relay, conn, listener, registered, inbound, inv>>
    /\ UNCHANGED inVars

\* go jsonrpc.ServeConn(conn), then the next iteration.
AcceptServe ==
    /\ loop = "serve"
    /\ inbound' = inbound + 1
    /\ sess' = [sess EXCEPT ![inbound + 1] = NewSession(cur)]
    /\ loop' = "accept"
    /\ UNCHANGED <<ctor, relay, conn, listener, registered, inv>>
    /\ UNCHANGED <<cur, service, status, srvlog>>

\* ---------------------------------------------------------------- teardown
\* CloseConnection: client.listener.Close().
CloseConnectionAlsoOutbound ==
    /\ ctor = "ready"
    /\ listener' = "closed"
    /\ conn' = [conn EXCEPT ![relay] = "shutdown"]
    /\ UNCHANGED <<ctor, relay, registered, loop, inbound, inv>>
    /\ UNCHANGED inVars
CloseConnectionEndsSessions ==
    /\ ctor = "ready"
    /\ listener' = "closed"
    /\ sess' = [c \in Sessions |->
                  IF sess[c].pc = "none" THEN sess[c]
                  ELSE [NoSession EXCEPT !.pc = "closed", !.via = sess[c].via]]
    /\ UNCHANGED <<ctor, relay, conn, registered, loop, inbound, inv>>
    /\ UNCHANGED <<cur, service, status, srvlog>>
CloseConnection ==
    /\ ctor = "ready"
    /\ listener' = "closed"
    /\ UNCHANGED <<ctor, relay, conn, registered, loop, inbound, inv>>
    /\ UNCHANGED inVars

\* ------------------------------------------------------------- environment
\* The relay or the network ends an open outbound connection: from then on
\* the handle's rpc.Client is shut down.
DropConnection(h) ==
    /\ conn[h] = "open"
    /\ conn' = [conn EXCEPT ![h] = "shutdown"]
    /\ UNCHANGED <<ctor, relay, listener, registered, loop, inbound, inv>>
    /\ UNCHANGED inVars

\* ---------------------------------------------------------- outbound calls
\* The application calls CreateGame(name, hostPassword).
CreateGame(p, name, hostPassword) ==
    /\ ctor = "ready"
    /\ inv[p].pc = "idle"
    /\ inv' = [inv EXCEPT ![p] =
                  NewInv("CreateGame", CreateGameData(name, hostPassword))]
    /\ UNCHANGED <<ctor, relay, conn, listener, registered, loop, inbound>>
    /\ UNCHANGED inVars

\* The application calls RemoveGame(name).
RemoveGame(p, name) ==
    /\ ctor = "ready"
    /\ inv[p].pc = "idle"
    /\ inv' = [inv EXCEPT ![p] = NewInv("RemoveGame", RemoveGameData(name))]
    /\ UNCHANGED <<ctor, relay, conn, listener, registered, loop, inbound>>
    /\ UNCHANGED inVars

\* client.relay.Call(...) on a handle whose rpc.Client is running: the
\* request is sent and the caller waits for the response.
CallSend(p) ==
    LET v == inv[p]
        h == HandleForCall(relay, v)
    IN  /\ v.pc = "call"
        /\ h # NoHandle
        /\ conn[h] = "open"
        /\ inv' = [inv EXCEPT ![p] =
                      [v EXCEPT !.pc = "wait", !.h = h,
                                !.hist = Append(@, Event("call", h, listener, FALSE))]]
        /\ UNCHANGED <<ctor, relay, conn, listener, registered, loop, inbound>>
        /\ UNCHANGED inVars

\* client.relay.Call(...) on a handle whose rpc.Client is shut down: Call
\* returns rpc.ErrShutdown without sending; the reply is not written.
CallShutdown(p) ==
    LET v == inv[p]
        h == HandleForCall(relay, v)
    IN  /\ v.pc = "call"
        /\ h # NoHandle
        /\ conn[h] = "shutdown"
        /\ inv' = [inv EXCEPT ![p] =
                      [v EXCEPT !.pc = "reconnect", !.h = h,
                                !.hist = @ \o <<Event("call", h, listener, FALSE),
                                                Event("ret", h, "shutdown", FALSE)>>]]
        /\ UNCHANGED <<ctor, relay, conn, listener, registered, loop, inbound>>
        /\ UNCHANGED inVars

\* The pending call returns without error: the relay's reply is in success.
CallReturnOk(p, reply) ==
    LET v == inv[p]
    IN  /\ v.pc = "wait"
        /\ conn[v.h] = "open"
        /\ inv' = [inv EXCEPT ![p] =
                      AfterCallOk([v EXCEPT !.hist =
                                      Append(@, Event("ret", v.h, "nil", reply))],
                                  reply)]
        /\ UNCHANGED <<ctor, relay, conn, listener, registered, loop, inbound>>
        /\ UNCHANGED inVars

\* The pending call returns an error other than rpc.ErrShutdown (an error
\* of the remote method, a response that does not decode, the connection
\* ending while the call is pending).  The response may carry a value b,
\* which is not written to success.
CallReturnErr(p, b) ==
    LET v == inv[p]
    IN  /\ v.pc = "wait"
        /\ inv' = [inv EXCEPT ![p] =
                      AfterOtherError([v EXCEPT !.hist =
                                          Append(@, Event("ret", v.h, "other", b))])]
        /\ UNCHANGED <<ctor, relay, conn, listener, registered, loop, inbound>>
        /\ UNCHANGED inVars

\* After rpc.ErrShutdown: client.connect() succeeds and installs a handle.
ReconnectOk(p) ==
    LET v == inv[p]
    IN  /\ v.pc = "reconnect"
        /\ Fresh <= MaxHandles
        /\ conn' = [conn EXCEPT ![Fresh] = "open"]
        /\ relay' = Fresh
        /\ inv' = [inv EXCEPT ![p] =
                      AfterReconnectOk([v EXCEPT !.hist =
                                           Append(@, Event("connect", Fresh, "ok", FALSE))])]
        /\ UNCHANGED <<ctor, listener, registered, loop, inbound>>
        /\ UNCHANGED inVars

\* After rpc.ErrShutdown: client.connect() fails.
ReconnectFail(p) ==
    LET v == inv[p]
    IN  /\ v.pc = "reconnect"
        /\ relay' = RelayAfterFailedDial(relay)
        /\ inv' = [inv EXCEPT ![p] =
                      AfterReconnectFail([v EXCEPT !.hist =
                                             Append(@, Event("connect", NoHandle, "fail", FALSE))])]
        /\ UNCHANGED <<ctor, conn, listener, registered, loop, inbound>>
        /\ UNCHANGED inVars

\* The invocation has returned to the application; the caller is free for
\* its next invocation.
Return(p) ==
    /\ inv[p].pc = "done"
    /\ inv' = [inv EXCEPT ![p] = IdleInv]
    /\ UNCHANGED <<ctor, relay, conn, listener, registered, loop, inbound>>
    /\ UNCHANGED inVars

\* ----------------------------------------------------------- inbound side
\* A request of the relay arrives on the served inbound connection c: a
\* call of ClientRPCMethods.<m> with the GameData (for Status: a string that
\* is not used).  The RPC server dispatches it to the registered methods.
InboundCall(c, m, data) ==
    /\ sess[c].pc = "idle"
    /\ service # NoClient
    /\ sess' = [sess EXCEPT ![c] =
                   [@ EXCEPT !.pc = "called",
                             !.req = [m |-> m, data |-> data, lst |-> listener],
                             !.cbs = <<>>,
                             !.resp = NoResp]]
    /\ UNCHANGED <<ctor, relay, conn, listener, registered, loop, inbound, inv>>
    /\ UNCHANGED <<cur, service, status, srvlog>>

\* Every inbound connection is served by its own goroutine (go
\* jsonrpc.ServeConn), so a method runs as soon as its request is there.
MayDispatchSerial(c) ==
    /\ sess[c].pc = "called"
    /\ \A d \in Sessions \ {c} : sess[d].pc # "in_cb"
MayDispatch(c) == sess[c].pc = "called"

\* ClientRPCMethods.GameConnected: client.client.callback.GameConnected(in.Name);
\* the callback is running.
GameConnected(c) ==
    /\ MayDispatch(c)
    /\ sess[c].req.m = "GameConnected"
    /\ sess' = [sess EXCEPT ![c] =
                   [@ EXCEPT !.pc = "in_cb",
                             !.cbs = Append(@, Callback(service, "GameConnected",
                                                        NameArg(sess[c].req.data)))]]
    /\ UNCHANGED <<ctor, relay, conn, listener, registered, loop, inbound, inv>>
    /\ UNCHANGED <<cur, service, status, srvlog>>

\* ClientRPCMethods.GameClosed: client.client.callback.GameClosed(in.Name).
GameClosed(c) ==
    /\ MayDispatch(c)
    /\ sess[c].req.m = "GameClosed"
    /\ sess' = [sess EXCEPT ![c] =
                   [@ EXCEPT !.pc = "in_cb",
                             !.cbs = Append(@, Callback(service, "GameClosed",
                                                        NameArg(sess[c].req.data)))]]
    /\ UNCHANGED <<ctor, relay, conn, listener, registered, loop, inbound, inv>>
    /\ UNCHANGED <<cur, service, status, srvlog>>

\* ClientRPCMethods.Status: client.client.callback.Status() is called.
Status(c) ==
    /\ MayDispatch(c)
    /\ sess[c].req.m = "Status"
    /\ sess' = [sess EXCEPT ![c] =
                   [@ EXCEPT !.pc = "in_cb",
                             !.cbs = Append(@, Callback(service, "Status", ""))]]
    /\ UNCHANGED <<ctor, relay, conn, listener, registered, loop, inbound, inv>>
    /\ UNCHANGED <<cur, service, status, srvlog>>

\* The callback returns (a consumer that blocks never lets this happen), the
\* method returns nil and the response is written: for Status the value the
\* consumer just produced, for the others the untouched *bool.
CallbackReturns(c) ==
    /\ sess[c].pc = "in_cb"
    /\ sess' = [sess EXCEPT ![c] =
                   [@ EXCEPT !.pc = "idle",
                             !.req = NoReq,
                             !.cbs = <<>>,
                             !.resp = IF sess[c].req.m = "Status"
                                      THEN StatusResponse(status)
                                      ELSE Unset]]
    /\ UNCHANGED <<ctor, relay, conn, listener, registered, loop, inbound, inv>>
    /\ UNCHANGED <<cur, service, status, srvlog>>

\* The relay ends the inbound connection c; its ServeConn goroutine returns.
SessionEnd(c) ==
    /\ sess[c].pc = "idle"
    /\ sess' = [sess EXCEPT ![c] = [NoSession EXCEPT !.pc = "closed", !.via = sess[c].via]]
    /\ UNCHANGED <<ctor, relay, conn, listener, registered, loop, inbound, inv>>
    /\ UNCHANGED <<cur, service, status, srvlog>>

\* The application's state changes: the consumer's Status() now produces v.
StatusChange(v) ==
    /\ ctor = "ready"
    /\ v # status
    /\ status' = v
    /\ UNCHANGED <<ctor, relay, conn, listener, registered, loop, inbound, inv>>
    /\ UNCHANGED <<cur, service, sess, srvlog>>

\* The application calls NewClientRPC again, with the next callback consumer,
\* after a construction that yielded nil or after it closed the client it
\* had: client := &ClientRPC{callback: callback}.  The variables of the
\* client (ctor, relay, listener, registered, loop) are from now on those of
\* the new client; the connections, the served inbound connections and the
\* process-wide RPC server stay.
Reconstruct ==
    /\ ctor = "nil" \/ (ctor = "ready" /\ listener = "closed")
    /\ cur < MaxClients
    /\ \A p \in Callers : inv[p].pc = "idle"
    /\ cur' = cur + 1
    /\ ctor' = "start"
    /\ relay' = NoHandle
    /\ listener' = "nil"
    /\ registered' = FALSE
    /\ loop' = "off"
    /\ UNCHANGED <<conn, inbound, inv, service, sess, status, srvlog>>

\* -------------------------------------------------------------------- Next
Next ==
    \/ NewClientRPC_ConnectOk
    \/ NewClientRPC_ConnectFail
    \/ NewClientRPC_ListenOk
    \/ NewClientRPC_ListenFail
    \/ AcceptConn
    \/ AcceptErr
    \/ AcceptContinue
    \/ AcceptServe
    \/ CloseConnection
    \/ \E h \in Handles : DropConnection(h)
    \/ \E p \in Callers, n \in Names, pw \in Passwords : CreateGame(p, n, pw)
    \/ \E p \in Callers, n \in Names : RemoveGame(p, n)
    \/ \E p \in Callers : CallSend(p)
    \/ \E p \in Callers : CallShutdown(p)
    \/ \E p \in Callers, reply \in BOOLEAN : CallReturnOk(p, reply)
    \/ \E p \in Callers, b \in BOOLEAN : CallReturnErr(p, b)
    \/ \E p \in Callers : ReconnectOk(p)
    \/ \E p \in Callers : ReconnectFail(p)
    \/ \E p \in Callers : Return(p)

Spec == Init /\ [][Next]_vars

\* The inbound side: construction, the accept loop, teardown, the dispatch
\* of the relay's calls to the callback consumer, and one caller whose
\* outbound calls meet a relay connection that stays up.
NextIn ==
    \/ NewClientRPC_ConnectOk
    \/ NewClientRPC_ConnectFail
    \/ NewClientRPC_ListenOk
    \/ NewClientRPC_ListenFail
    \/ AcceptConnIn
    \/ AcceptErr
    \/ AcceptContinue
    \/ AcceptServe
    \/ CloseConnection
    \/ \E c \in Sessions, m \in {"GameConnected", "GameClosed"}, n \in Names,
          pw \in Passwords : InboundCall(c, m, CreateGameData(n, pw))
    \/ \E c \in Sessions : InboundCall(c, "Status", RemoveGameData(""))
    \/ \E c \in Sessions : GameConnected(c)
    \/ \E c \in Sessions : GameClosed(c)
    \/ \E c \in Sessions : Status(c)
    \/ \E c \in Sessions : CallbackReturns(c)
    \/ \E c \in Sessions : SessionEnd(c)
    \/ \E v \in StatusValues : StatusChange(v)
    \/ \E p \in InCallers, n \in Names, pw \in Passwords : CreateGame(p, n, pw)
    \/ \E p \in InCallers : CallSend(p)
    \/ \E p \in InCallers, reply \in BOOLEAN : CallReturnOk(p, reply)
    \/ \E p \in InCallers, b \in BOOLEAN : CallReturnErr(p, b)
    \/ \E p \in InCallers : Return(p)

SpecIn == Init /\ [][NextIn]_vars

\* The accept goroutine is scheduled: a step of it that stays possible is
\* taken.  Nothing is assumed of the relay or of the application.
AcceptFairness ==
    /\ WF_vars(AcceptErr)
    /\ WF_vars(AcceptContinue)
    /\ WF_vars(AcceptServe)

FairSpecIn == Init /\ [][NextIn]_vars /\ AcceptFairness

\* The inbound side of a process that builds one client after another.
NextRebuild == NextIn \/ Reconstruct

SpecRebuild == Init /\ [][NextRebuild]_vars

\* =================================================================== claims
Range(s) == {s[j] : j \in 1..Len(s)}
IsCall(e) == e.k = "call"
IsConnect(e) == e.k = "connect"
CallsOf(p) == SelectSeq(inv[p].hist, IsCall)
ConnectsOf(p) == SelectSeq(inv[p].hist, IsConnect)
OpenHandles == {h \in Handles : conn[h] = "open"}

\* Caller p's step appended event(s) to its history; the last one is e.
Appended(p) ==
    /\ Len(inv'[p].hist) > Len(inv[p].hist)
    /\ SubSeq(inv'[p].hist, 1, Len(inv[p].hist)) = inv[p].hist
\* Caller p's step issued a call attempt; on which handle.
IssuedCall(p) == Appended(p) /\ inv'[p].hist[Len(inv[p].hist) + 1].k = "call"
IssuedOn(p) == inv'[p].hist[Len(inv[p].hist) + 1].h
\* Caller p's step was a connect() that failed / a call that returned another
\* error than rpc.ErrShutdown.
FailedReconnect(p) ==
    Appended(p) /\ Last(inv'[p].hist).k = "connect" /\ Last(inv'[p].hist).out = "fail"
ReturnedOtherError(p) ==
    Appended(p) /\ Last(inv'[p].hist).k = "ret" /\ Last(inv'[p].hist).out = "other"

\* The first call attempt of p's invocation failed with rpc.ErrShutdown and
\* the connect() that followed succeeded.
FirstShutdownThenReconnected(p) ==
    LET hs == inv[p].hist
    IN  /\ Len(hs) >= 3
        /\ hs[2].k = "ret" /\ hs[2].out = "shutdown"
        /\ hs[3].k = "connect" /\ hs[3].out = "ok"

\* C1: no invocation makes more than 2 call attempts; when the first attempt
\* fails with rpc.ErrShutdown and the reconnect succeeds, the invocation does
\* not end before a retry, the retry is the next thing it does, it goes to a
\* handle installed by that reconnect or later (never the shut-down one), the
\* invocation ends with exactly 2 attempts made, and what it returns is the
\* outcome of the retry: the reply if the retry had no error, false otherwise.
C1_OneRetryOnNewHandle ==
    \A p \in Callers :
        LET v == inv[p]
            hs == v.hist
        IN  /\ Len(CallsOf(p)) <= 2
            /\ FirstShutdownThenReconnected(p) =>
                 /\ Len(hs) = 3 => v.pc = "call"
                 /\ Len(hs) >= 4 =>
                      /\ hs[4].k = "call"
                      /\ hs[4].h >= hs[3].h
                      /\ hs[4].h # hs[1].h
                 /\ v.pc = "done" =>
                      /\ Len(CallsOf(p)) = 2
                      /\ Len(hs) >= 5
                      /\ hs[5].k = "ret"
                      /\ v.result = (hs[5].out = "nil" /\ hs[5].b)

\* C1 witness: a retry after a successful reconnect returned true.
C1_Witness ==
    \E p \in Callers :
        /\ FirstShutdownThenReconnected(p)
        /\ inv[p].pc = "done"
        /\ Len(CallsOf(p)) = 2
        /\ inv[p].result = TRUE

\* C2: every invocation calls connect at most once and makes at most one
\* re-call (at most 2 call attempts), whatever the outcomes are.
C2_AtMostOneReconnect ==
    \A p \in Callers :
        /\ Len(ConnectsOf(p)) <= 1
        /\ Len(CallsOf(p)) <= 2

\* C3: a connect() that fails after rpc.ErrShutdown ends the invocation: it
\* returns false, the lost-connection report is logged and the report of
\* other RPC errors is not, nothing (no call, no connect) follows it in the
\* invocation, and the step leaves client.relay and the connections alone.
C3_FailedReconnectEnds ==
    \A p \in Callers :
        \A j \in 1..Len(inv[p].hist) :
            (inv[p].hist[j].k = "connect" /\ inv[p].hist[j].out = "fail") =>
                /\ j = Len(inv[p].hist)
                /\ inv[p].hist[j - 1].k = "ret"
                /\ inv[p].hist[j - 1].out = "shutdown"
                /\ inv[p].pc = "done"
                /\ inv[p].result = FALSE
                /\ "lost_unable_to_reconnect" \in Range(inv[p].log)
                /\ "rpc_error" \notin Range(inv[p].log)
C3_FailedReconnectFrame ==
    \A p \in Callers : FailedReconnect(p) => relay' = relay /\ conn' = conn
C3_LostConnection ==
    []C3_FailedReconnectEnds /\ [][C3_FailedReconnectFrame]_vars

\* C3 witness: the first attempt was shut down and the reconnect failed.
C3_Witness ==
    \E p \in Callers :
        /\ Len(inv[p].hist) = 3
        /\ inv[p].hist[3].k = "connect" /\ inv[p].hist[3].out = "fail"
        /\ inv[p].pc = "done"
        /\ relay # NoHandle /\ conn[relay] = "shutdown"

\* C4: a call attempt, first or retried, that fails with another error than
\* rpc.ErrShutdown ends the invocation: it returns false, nothing (no
\* connect, no call) follows in the invocation, the lost-connection report
\* is not made, and the step leaves client.relay and the connections alone.
C4_OtherErrorEnds ==
    \A p \in Callers :
        \A j \in 1..Len(inv[p].hist) :
            (inv[p].hist[j].k = "ret" /\ inv[p].hist[j].out = "other") =>
                /\ j = Len(inv[p].hist)
                /\ inv[p].pc = "done"
                /\ inv[p].result = FALSE
                /\ Last(inv[p].log) = "rpc_error"
                /\ "lost_unable_to_reconnect" \notin Range(inv[p].log)
C4_OtherErrorFrame ==
    \A p \in Callers : ReturnedOtherError(p) => relay' = relay /\ conn' = conn
C4_OtherError ==
    []C4_OtherErrorEnds /\ [][C4_OtherErrorFrame]_vars

\* C4 witness: the retried attempt failed with another error, its response
\* carrying true.
C4_Witness ==
    \E p \in Callers :
        /\ FirstShutdownThenReconnected(p)
        /\ Len(inv[p].hist) = 5
        /\ inv[p].hist[5].k = "ret" /\ inv[p].hist[5].out = "other"
        /\ inv[p].hist[5].b = TRUE
        /\ inv[p].pc = "done"

\* C5: an invocation returns true exactly when one of its attempts returned
\* without error with the reply true; an attempt without error is the last
\* thing of the invocation and its reply is what is returned.
C5_PassThrough ==
    \A p \in Callers :
        LET v == inv[p]
        IN  v.pc = "done" =>
              /\ v.result = (\E j \in 1..Len(v.hist) :
                                /\ v.hist[j].k = "ret"
                                /\ v.hist[j].out = "nil"
                                /\ v.hist[j].b = TRUE)
              /\ \A j \in 1..Len(v.hist) :
                    (v.hist[j].k = "ret" /\ v.hist[j].out = "nil") =>
                        (j = Len(v.hist) /\ v.result = v.hist[j].b)

\* C5 witness: one invocation returned the reply true, another the reply
\* false, a third way round: a failed attempt whose response carried true.
C5_Witness ==
    \E p, q \in Callers :
        /\ inv[p].pc = "done" /\ inv[p].result = TRUE
        /\ inv[q].pc = "done" /\ inv[q].m = "CreateGame"
        /\ Last(inv[q].hist).k = "ret" /\ Last(inv[q].hist).out = "nil"
        /\ Last(inv[q].hist).b = FALSE /\ inv[q].result = FALSE

\* C6: at most one outbound connection opened by the client is active at
\* any time, and a successful reconnect replaces only a handle that is shut
\* down.
C6_AtMostOneActive == Cardinality(OpenHandles) <= 1
C6_ReplacesOnlyDead ==
    (relay' # relay /\ relay # NoHandle) => conn[relay] = "shutdown"
C6_OneActiveConnection ==
    []C6_AtMostOneActive /\ [][C6_ReplacesOnlyDead]_vars

\* C7: the client holds exactly the handle of the most recent successful
\* connect; client.relay changes only by a successful dial, which installs
\* the connection just opened; every call attempt is issued on the handle
\* installed most recently.
C7_HoldsLatest == relay = Cardinality(Dialled)
C7_CallsOnLatest ==
    /\ \A p \in Callers :
          IssuedCall(p) => IssuedOn(p) = relay /\ IssuedOn(p) = Cardinality(Dialled)
    /\ relay' # relay =>
          /\ relay' = Fresh
          /\ conn[relay'] = "unused"
          /\ conn'[relay'] = "open"
C7_OneHandle ==
    []C7_HoldsLatest /\ [][C7_CallsOnLatest]_vars

\* C7 witness: a second successful connect has replaced the handle and a
\* call is pending on the new one.
C7_Witness ==
    \E p \in Callers :
        /\ inv[p].pc = "wait"
        /\ inv[p].h = relay
        /\ relay >= 2

\* C8: a step in which a dial fails (in NewClientRPC or in a reconnect)
\* leaves client.relay as it was, and connect returns false (NewClientRPC
\* yields nil, the invocation takes its connect-failed branch); client.relay
\* is assigned only in a step whose dial opened a connection.
C8_FailedDialFrame ==
    /\ (ctor = "start" /\ conn' = conn /\ ctor' # ctor) =>
          (relay' = relay /\ ctor' = "nil")
    /\ \A p \in Callers :
          (inv[p].pc = "reconnect" /\ inv'[p] # inv[p] /\ conn' = conn) =>
              (relay' = relay /\ FailedReconnect(p))
    /\ relay' # relay => (conn[relay'] = "unused" /\ conn'[relay'] = "open")
C8_FailedConnect == [][C8_FailedDialFrame]_vars

\* C8 witness: a reconnect failed and the client still holds the old handle.
C8_Witness ==
    \E p \in Callers :
        /\ Len(inv[p].hist) = 3
        /\ inv[p].hist[3].k = "connect" /\ inv[p].hist[3].out = "fail"
        /\ relay = inv[p].hist[1].h
        /\ inv[p].m = "RemoveGame"

\* C9: a step that changes the listener changes nothing of the outbound
\* side (client.relay, the connections, the invocations), so no step of
\* CreateGame, RemoveGame or connect closes the listener and CloseConnection
\* leaves the outbound handle alone; the accept loop, once started, never
\* stops.
C9_Independent ==
    /\ listener' # listener => UNCHANGED <<relay, conn, inv>>
    /\ loop # "off" => loop' # "off"
    /\ (listener = "open" /\ listener' # "open") => (ctor = "ready" /\ listener' = "closed")
C10_Construction ==
    /\ ctor = "nil" =>
          /\ listener = "nil" /\ loop = "off" /\ ~registered /\ inbound = 0
          /\ \A p \in Callers : inv[p].pc = "idle"
    /\ ctor = "listen" => (relay # NoHandle /\ listener = "nil" /\ loop = "off")
    /\ ctor = "ready" => (relay # NoHandle /\ listener # "nil" /\ loop # "off")
    /\ loop # "off" => ctor = "ready"
    /\ listener # "nil" => ctor = "ready"

\* C10 witness: the initial connect succeeded and the bind failed.
C10_Witness ==
    /\ ctor = "nil"
    /\ relay # NoHandle
    /\ loop = "off"

\* -------------------------------------------------- claims, inbound side
\* Session c's step ended the dispatch of its request (the RPC response is
\* produced).
Responded(c) ==
    /\ sess[c].pc \in {"called", "in_cb"}
    /\ sess'[c].pc \notin {"called", "in_cb"}
\* Some method of session d can run its callback.
CanDispatch(d) == ENABLED (GameConnected(d) \/ GameClosed(d) \/ Status(d))
CanCall(d) == ENABLED InboundCall(d, "Status", RemoveGameData(""))

\* C11: a GameConnected / GameClosed request that is being answered has
\* caused exactly one callback, the consumer's method of the same name with
\* the name of the request's game data; before the method runs no callback
\* was made for the request; the response is produced only after that one
\* callback, and a step that makes a callback for one request makes none for
\* another.
C11_OneCallback ==
    \A c \in Sessions :
        /\ sess[c].pc = "called" => (sess[c].cbs = <<>> /\ sess[c].resp = NoResp)
        /\ sess[c].pc = "in_cb" =>
              /\ sess[c].resp = NoResp
              /\ Len(sess[c].cbs) = 1
              /\ sess[c].req.m \in {"GameConnected", "GameClosed"} =>
                    sess[c].cbs[1] =
                        Callback(service, sess[c].req.m, sess[c].req.data.Name)
        /\ sess[c].pc \notin {"called", "in_cb"} => sess[c].cbs = <<>>
C11_CallbackBeforeResponse ==
    \A c \in Sessions :
        /\ Responded(c) =>
              /\ sess[c].pc = "in_cb"
              /\ Len(sess[c].cbs) = 1
              /\ sess'[c].pc = "idle"
              /\ sess'[c].resp # NoResp
        /\ (sess'[c].cbs # sess[c].cbs /\ sess'[c].cbs # <<>>) =>
              /\ sess[c].pc = "called"
              /\ \A d \in Sessions \ {c} : sess'[d] = sess[d]
C11_Forwarding ==
    []C11_OneCallback /\ [][C11_CallbackBeforeResponse]_vars

\* C11 witness: GameClosed("room1") is running for one request while the
\* request of another connection was answered.
C11_Witness ==
    \E c, d \in Sessions :
        /\ sess[c].pc = "in_cb"
        /\ sess[c].cbs = <<Callback(1, "GameClosed", "room1")>>
        /\ sess[d].pc = "idle"
        /\ sess[d].resp = Unset

\* C12: the response to a Status request is the value the consumer's
\* Status() produces when the request is answered, after exactly one call
\* of the consumer's Status for that request.
C12_StatusAnswer ==
    \A c \in Sessions :
        (Responded(c) /\ sess[c].req.m = "Status") =>
            /\ sess'[c].resp = status
            /\ sess[c].cbs = <<Callback(service, "Status", "")>>
C12_StatusFresh == [][C12_StatusAnswer]_vars

\* C12 witness: two Status requests were answered with different values,
\* the consumer's state having changed in between.
C12_Witness ==
    \E c, d \in Sessions :
        /\ sess[c].resp = "s0"
        /\ sess[d].resp = "s1"

\* C13: every callback made for a request of an inbound connection goes to
\* the consumer given to the client through whose listener the connection
\* was accepted.
C13_OwnConsumer ==
    \A c \in Sessions :
        \A j \in 1..Len(sess[c].cbs) : sess[c].cbs[j].to = sess[c].via

\* C14: Accept returns a connection only while the listener is open: with
\* the listener closed no accept can happen, and what is handed to the RPC
\* server is a connection Accept returned.
C14_ClosedAcceptsNothing ==
    listener = "closed" => ~ENABLED AcceptConnIn
C14_AcceptOnlyOpen ==
    /\ (loop # "serve" /\ loop' = "serve") => (listener = "open" /\ listener' = "open")
    /\ inbound' # inbound => (loop = "serve" /\ inbound' = inbound + 1)
    /\ \A c \in Sessions :
          (sess[c].pc = "none" /\ sess'[c].pc # "none") => loop = "serve"
C14_NoAcceptAfterClose ==
    []C14_ClosedAcceptsNothing /\ [][C14_AcceptOnlyOpen]_vars

\* C14 witness: the listener is closed, the relay could still dial in, and
\* the accept attempt made after the close failed.
C14_Witness ==
    /\ listener = "closed"
    /\ loop = "err"
    /\ inbound < MaxSessions

\* C15: once the listener is closed the accept goroutine comes to an end.
C15_AcceptsCease == (listener = "closed") ~> (loop = "off")

\* C16: an error of Accept is logged and the loop goes on with the next
\* Accept.
C16_LoggedAndIgnored ==
    (loop = "err" /\ loop' # "err") =>
        (loop' = "accept" /\ "accept_error" \in srvlog')
C16_AcceptErrorLogged == [][C16_LoggedAndIgnored]_vars

\* C17: while a callback of one inbound connection has not returned, every
\* other served connection takes requests and runs its methods, the accept
\* loop accepts and hands over connections, and the caller's invocation
\* starts, sends, gets its answer and returns.
C17_OthersNotStalled ==
    \A c \in Sessions :
        sess[c].pc = "in_cb" =>
            /\ \A d \in Sessions \ {c} :
                  /\ sess[d].pc = "idle" => CanCall(d)
                  /\ sess[d].pc = "called" => CanDispatch(d)
                  /\ sess[d].pc = "in_cb" => ENABLED CallbackReturns(d)
            /\ (loop = "accept" /\ listener = "open" /\ inbound < MaxSessions) =>
                  ENABLED AcceptConnIn
            /\ loop = "serve" => ENABLED AcceptServe
            /\ \A p \in InCallers :
                  /\ inv[p].pc = "idle" => ENABLED CreateGame(p, "room1", "pw")
                  /\ (inv[p].pc = "call" /\ conn[relay] = "open") => ENABLED CallSend(p)
                  /\ (inv[p].pc = "wait" /\ conn[inv[p].h] = "open") =>
                        ENABLED CallReturnOk(p, TRUE)
                  /\ inv[p].pc = "done" => ENABLED Return(p)

\* C17 witness: two callbacks of two connections are running at once and
\* an outbound invocation has returned true.
C17_Witness ==
    \E c, d \in Sessions, p \in InCallers :
        /\ c # d
        /\ sess[c].pc = "in_cb"
        /\ sess[d].pc = "in_cb"
        /\ inv[p].pc = "done" /\ inv[p].result = TRUE

\* C18: closing the listener leaves the served inbound connections as they
\* are, and with the listener closed a served connection still takes
\* requests, runs the methods and answers.
C18_ServedWhileClosed ==
    \A c \in Sessions :
        listener = "closed" =>
            /\ sess[c].pc = "idle" => CanCall(c)
            /\ sess[c].pc = "called" => CanDispatch(c)
            /\ sess[c].pc = "in_cb" => ENABLED CallbackReturns(c)
C18_CloseKeepsSessions ==
    listener' # listener => (sess' = sess /\ inbound' = inbound)
C18_SessionsSurviveClose ==
    []C18_ServedWhileClosed /\ [][C18_CloseKeepsSessions]_vars

\* C18 witness: a request that arrived with the listener closed has reached
\* the consumer.
C18_Witness ==
    \E c \in Sessions :
        /\ listener = "closed"
        /\ sess[c].pc = "in_cb"
        /\ sess[c].req.lst = "closed"
        /\ sess[c].cbs = <<Callback(1, "GameConnected", "room1")>>

\* C19: after a construction that yielded no client no connection to the
\* relay is open.
C19_NoConnectionLeft == ctor = "nil" => OpenHandles = {}

====
